---- MODULE Spec2Model ----
(***************************************************************************)
(* Constructive reals of ripta/reals (pkg/constructive): the expression    *)
(* nodes, the per-node precision tracker, and the drivers Approximate,     *)
(* PreciseCmp, PreciseSign, Cmp and Sign.                                  *)
(*                                                                         *)
(* A *big.Int is an integer or nil; a call returns an integer, returns     *)
(* nil, or panics.  Machine integers (precisions, MSDs) are IntSize bits   *)
(* wide and wrap; IntSize is 6 here instead of 32/64 so that 2^|p| stays   *)
(* a small number for every valid precision p.                             *)
(***************************************************************************)
EXTENDS Integers, Sequences, FiniteSets, TLC

VARIABLES nodes, trk, halted, ctx, thr, reg

vars == <<nodes, trk, halted, ctx, thr, reg>>

(***************************************************************************)
(* Bounds of the model.                                                    *)
(***************************************************************************)
MaxInt == 3
MaxShift == 2
Slack == 1

(***************************************************************************)
(* Machine integers.                                                       *)
(***************************************************************************)
IntSize == 6

Pow2(n) == 2 ^ n

MinInt == -Pow2(IntSize - 1)

\* Go's int arithmetic: the result modulo 2^IntSize, as a signed value.
Wrap(x) == ((x + Pow2(IntSize - 1)) % Pow2(IntSize)) - Pow2(IntSize - 1)

\* value >> k on a signed machine integer (arithmetic shift).
Sar(value, k) == value \div Pow2(k)

\* A variant that looks at the top three bits only.
WithinThreeBits(value, tolerance) ==
    Sar(value, IntSize - 3) = Sar(value, IntSize - 2)

IsIntWithinBitTolerance(value, tolerance) ==
    LET highBits == Sar(value, IntSize - 4)
        topBits == Sar(value, IntSize - 3)
    IN highBits = topBits

IsPrecisionValid(p) == IsIntWithinBitTolerance(p, 4)

(***************************************************************************)
(* Big-integer helpers.                                                    *)
(***************************************************************************)
bigAbs(a) == IF a < 0 THEN -a ELSE a

\* big.Int.Rsh: an arithmetic shift, rounding toward minus infinity.
bigRsh(a, n) == a \div Pow2(n)

bigLsh(a, n) == a * Pow2(n)

\* big.Int.Div: Euclidean division, the remainder is never negative.
bigDiv(a, b) == IF b > 0 THEN a \div b ELSE -(a \div (-b))

RECURSIVE BitLen(_)
BitLen(x) == IF x = 0 THEN 0 ELSE 1 + BitLen(x \div 2)

\* big.Int.Sign.
bigSign(x) == IF x > 0 THEN 1 ELSE IF x < 0 THEN -1 ELSE 0

signedShift(i, n) ==
    IF n < 0 THEN bigRsh(i, -n) ELSE IF n > 0 THEN bigLsh(i, n) ELSE i

\* A variant of scale that drops the bits instead of rounding.
ScaleTruncating(i, n) ==
    IF n >= 0 THEN bigLsh(i, n)
    ELSE bigRsh(signedShift(i, n + 1), 1)

scale(i, n) ==
    IF n >= 0 THEN bigLsh(i, n)
    ELSE bigRsh(signedShift(i, n + 1) + 1, 1)

(***************************************************************************)
(* Nodes.  A table is a sequence of nodes, children before parents; a      *)
(* node is named by its index.                                             *)
(***************************************************************************)
newInteger(i) == [kind |-> "Int", i |-> i, a |-> 0, b |-> 0, n |-> 0, r |-> 0]
newAddition(a, b) == [kind |-> "Add", i |-> 0, a |-> a, b |-> b, n |-> 0, r |-> 0]
newNegation(r) == [kind |-> "Neg", i |-> 0, a |-> r, b |-> 0, n |-> 0, r |-> 0]
newShift(r, n) == [kind |-> "Shift", i |-> 0, a |-> r, b |-> 0, n |-> n, r |-> 0]
newMultiplication(a, b) == [kind |-> "Mul", i |-> 0, a |-> a, b |-> b, n |-> 0, r |-> 0]
newMultiplicativeInverse(r) == [kind |-> "Inv", i |-> 0, a |-> r, b |-> 0, n |-> 0, r |-> 0]
newCondsign(r, a, b) == [kind |-> "Cond", i |-> 0, a |-> a, b |-> b, n |-> 0, r |-> r]

(***************************************************************************)
(* The precision tracker embedded in every node.                           *)
(***************************************************************************)
NewTracker == [IsValid |-> FALSE, isNil |-> TRUE, MaxApproximation |-> 0, MinPrecision |-> 0]

\* What a call gives back: an integer, nil or a panic, and the trackers it leaves.
RInt(v, T) == [st |-> "int", v |-> v, msg |-> "", t |-> T]
RNil(T) == [st |-> "nil", v |-> 0, msg |-> "", t |-> T]
RPanic(msg, T) == [st |-> "panic", v |-> 0, msg |-> msg, t |-> T]
\* A call that never returns (the loop of Sign).
RDiverges(T) == [st |-> "diverges", v |-> 0, msg |-> "", t |-> T]

\* The call gave its caller nothing: it panicked or it never returns.
NoReturn(r) == r.st \in {"panic", "diverges"}

NilDeref == "nil pointer dereference"
DivByZero == "division by zero"

\* A variant of the tracker that never answers.
TrackerNeverHit(t, p) == FALSE

TrackerHit(t, p) == t.IsValid /\ p >= t.MinPrecision

\* A variant of Get that hands out the stored approximation as it is.
TrackerGetUnscaled(T, c, p) ==
    IF T[c].isNil THEN RPanic(NilDeref, T)
    ELSE RInt(T[c].MaxApproximation, T)

\* precisionTracker.Get on a hit; scale dereferences the stored approximation.
TrackerGet(T, c, p) ==
    IF T[c].isNil THEN RPanic(NilDeref, T)
    ELSE RInt(scale(T[c].MaxApproximation, Wrap(T[c].MinPrecision - p)), T)

\* A variant of Set that keeps the entry it already has.
TrackerSetKeepFirst(T, c, p, r) ==
    IF T[c].IsValid THEN T
    ELSE [T EXCEPT ![c] = [IsValid |-> TRUE, isNil |-> (r.st = "nil"),
                           MaxApproximation |-> r.v, MinPrecision |-> p]]

\* precisionTracker.Set with the value r (an integer or nil) computed at p.
TrackerSet(T, c, p, r) ==
    [T EXCEPT ![c] = [IsValid |-> TRUE, isNil |-> (r.st = "nil"),
                      MaxApproximation |-> r.v, MinPrecision |-> p]]

(***************************************************************************)
(* Approximate and the nodes' approximate methods.  T is the trackers of   *)
(* all nodes at the moment of the call; the result carries the trackers    *)
(* the call leaves behind, also when it panics half way.                   *)
(***************************************************************************)
RECURSIVE Approximate(_, _, _)
RECURSIVE approximate(_, _, _)
RECURSIVE Sign(_, _)

\* knownMSD reads the tracker without looking at IsValid.
knownMSD(T, c) ==
    IF T[c].isNil THEN RPanic(NilDeref, T)
    ELSE RInt(Wrap(T[c].MinPrecision + BitLen(bigAbs(T[c].MaxApproximation)) - 1), T)

msd(T, c, n) ==
    IF ~T[c].IsValid \/ (~T[c].isNil /\ bigAbs(T[c].MaxApproximation) <= 1)
    THEN LET r == Approximate(T, c, Wrap(n - 1)) IN
         IF NoReturn(r) THEN r
         ELSE IF r.t[c].isNil THEN RPanic(NilDeref, r.t)
         ELSE IF bigAbs(r.t[c].MaxApproximation) <= 1 THEN RInt(MinInt, r.t)
         ELSE knownMSD(r.t, c)
    ELSE IF T[c].isNil THEN RPanic(NilDeref, T)
    ELSE knownMSD(T, c)

constructiveIntegerApproximate(T, c, p) ==
    RInt(scale(nodes[c].i, Wrap(-p)), T)

\* A variant of the addition that leaves out the final scale.
AdditionUnscaled(T, c, p) ==
    LET ra == Approximate(T, nodes[c].a, Wrap(p - 2)) IN
    IF NoReturn(ra) THEN ra
    ELSE LET rb == Approximate(ra.t, nodes[c].b, Wrap(p - 2)) IN
         IF NoReturn(rb) THEN rb
         ELSE IF ra.st = "nil" \/ rb.st = "nil" THEN RPanic(NilDeref, rb.t)
         ELSE RInt(ra.v + rb.v, rb.t)

constructiveAdditionApproximate(T, c, p) ==
    LET ra == Approximate(T, nodes[c].a, Wrap(p - 2)) IN
    IF NoReturn(ra) THEN ra
    ELSE LET rb == Approximate(ra.t, nodes[c].b, Wrap(p - 2)) IN
         IF NoReturn(rb) THEN rb
         ELSE IF ra.st = "nil" \/ rb.st = "nil" THEN RPanic(NilDeref, rb.t)
         ELSE RInt(scale(ra.v + rb.v, -2), rb.t)

constructiveNegationApproximate(T, c, p) ==
    LET r == Approximate(T, nodes[c].a, p) IN
    IF NoReturn(r) THEN r
    ELSE IF r.st = "nil" THEN RPanic(NilDeref, r.t)
    ELSE RInt(-r.v, r.t)

constructiveShiftApproximate(T, c, p) ==
    Approximate(T, nodes[c].a, Wrap(p - nodes[c].n))

\* The part of Multiplication after ma is known: b at p2, then a at p1.
MultiplicationTail(T, c, p, ma) ==
    LET p2 == Wrap(p - ma - 3)
        rb == Approximate(T, nodes[c].b, p2)
    IN
    IF NoReturn(rb) THEN rb
    ELSE IF rb.st = "nil" THEN RPanic(NilDeref, rb.t)
    ELSE IF rb.v = 0 THEN RInt(0, rb.t)
    ELSE LET mb == knownMSD(rb.t, nodes[c].b) IN
         IF NoReturn(mb) THEN mb
         ELSE LET p1 == Wrap(p - mb.v - 3)
                  ra == Approximate(rb.t, nodes[c].a, p1)
              IN
              IF NoReturn(ra) THEN ra
              ELSE IF ra.st = "nil" THEN RPanic(NilDeref, ra.t)
              ELSE RInt(scale(ra.v * rb.v, Wrap(p1 + p2 - p)), ra.t)

constructiveMultiplicationApproximate(T, c, p) ==
    LET hp == Wrap(Sar(p, 1) - 1)
        ma == msd(T, nodes[c].a, hp)
    IN
    IF NoReturn(ma) THEN ma
    ELSE IF ma.v = MinInt
    THEN LET mb == msd(ma.t, nodes[c].b, hp) IN
         IF NoReturn(mb) THEN mb
         ELSE IF mb.v = MinInt THEN RInt(0, mb.t)
         ELSE MultiplicationTail(mb.t, c, p, mb.v)
    ELSE MultiplicationTail(ma.t, c, p, ma.v)

\* res := bigDiv(adj, divisor), negated when it is negative.
InverseQuotient(adj, divisor) ==
    LET res == bigDiv(adj, divisor) IN
    IF bigSign(res) < 0 THEN -res ELSE res

constructiveMultiplicativeInverseApproximate(T, c, p) ==
    LET mr == msd(T, nodes[c].a, p) IN
    IF NoReturn(mr) THEN mr
    ELSE LET ir == Wrap(1 - mr.v)
             digits == Wrap(ir - p + 3)
             pn == Wrap(mr.v - digits)
             lsf == Wrap(-p - pn)
         IN
         IF lsf < 0 THEN RInt(0, mr.t)
         ELSE LET dividend == bigLsh(1, lsf)
                  rd == Approximate(mr.t, nodes[c].a, pn)
              IN
              IF NoReturn(rd) THEN rd
              ELSE IF rd.st = "nil" THEN RPanic(NilDeref, rd.t)
              ELSE IF rd.v = 0 THEN RPanic(DivByZero, rd.t)
              ELSE RInt(InverseQuotient(dividend + bigRsh(bigAbs(rd.v), 1), rd.v), rd.t)

\* The precision at which a condsign node probes its condition: -20 in the
\* source; -2 with IntSize 6, so that a sum probed there asks its operands
\* at a valid precision as it does in the source.
ProbePrecision == -2

\* The condition was decided by Sign: a for a negative condition, else b.
CondsignBySign(s, ia, ib) ==
    IF NoReturn(s) THEN s
    ELSE IF s.v < 0 THEN RInt(scale(ia, -1), s.t)
    ELSE RInt(scale(ib, -1), s.t)

\* The probe was zero: both operands at p - 1.
CondsignUndecided(T, c, p) ==
    LET ia == Approximate(T, nodes[c].a, Wrap(p - 1)) IN
    IF NoReturn(ia) THEN ia
    ELSE LET ib == Approximate(ia.t, nodes[c].b, Wrap(p - 1)) IN
         IF NoReturn(ib) THEN ib
         ELSE IF ia.st = "nil" \/ ib.st = "nil" THEN RPanic(NilDeref, ib.t)
         ELSE IF bigAbs(ia.v - ib.v) <= 1 THEN RInt(scale(ia.v, -1), ib.t)
         ELSE CondsignBySign(Sign(ib.t, nodes[c].r), ia.v, ib.v)

constructiveCondsignApproximate(T, c, p) ==
    LET rs == Approximate(T, nodes[c].r, ProbePrecision) IN
    IF NoReturn(rs) THEN rs
    ELSE IF rs.st = "nil" THEN RPanic(NilDeref, rs.t)
    ELSE IF bigSign(rs.v) < 0 THEN Approximate(rs.t, nodes[c].a, p)
    ELSE IF bigSign(rs.v) > 0 THEN Approximate(rs.t, nodes[c].b, p)
    ELSE CondsignUndecided(rs.t, c, p)

approximate(T, c, p) ==
    CASE nodes[c].kind = "Int" -> constructiveIntegerApproximate(T, c, p)
      [] nodes[c].kind = "Add" -> constructiveAdditionApproximate(T, c, p)
      [] nodes[c].kind = "Neg" -> constructiveNegationApproximate(T, c, p)
      [] nodes[c].kind = "Shift" -> constructiveShiftApproximate(T, c, p)
      [] nodes[c].kind = "Mul" -> constructiveMultiplicationApproximate(T, c, p)
      [] nodes[c].kind = "Inv" -> constructiveMultiplicativeInverseApproximate(T, c, p)
      [] nodes[c].kind = "Cond" -> constructiveCondsignApproximate(T, c, p)

Approximate(T, c, p) ==
    IF ~IsPrecisionValid(p) THEN RNil(T)
    ELSE IF TrackerHit(T[c], p) THEN TrackerGet(T, c, p)
    ELSE LET s == approximate(T, c, p) IN
         IF NoReturn(s) THEN s
         ELSE [s EXCEPT !.t = TrackerSet(s.t, c, p, s)]

(***************************************************************************)
(* The drivers.                                                            *)
(***************************************************************************)
\* A variant of the comparison with the two answers exchanged.
PreciseCmpSwapped(ia, ib) ==
    IF NoReturn(ib) THEN ib
    ELSE IF ia.st = "nil" \/ ib.st = "nil" THEN RInt(0, ib.t)
    ELSE IF ia.v > ib.v + 1 THEN RInt(-1, ib.t)
    ELSE IF ia.v < ib.v - 1 THEN RInt(1, ib.t)
    ELSE RInt(0, ib.t)

\* A variant of the comparison that takes an unknown approximation for a difference.
PreciseCmpNilFirst(ia, ib) ==
    IF NoReturn(ib) THEN ib
    ELSE IF ia.st = "nil" \/ ib.st = "nil" THEN RInt(1, ib.t)
    ELSE IF ia.v > ib.v + 1 THEN RInt(1, ib.t)
    ELSE IF ia.v < ib.v - 1 THEN RInt(-1, ib.t)
    ELSE RInt(0, ib.t)

\* The comparison of PreciseCmp once both approximations are there.
PreciseCmpOf(ia, ib) ==
    IF NoReturn(ib) THEN ib
    ELSE IF ia.st = "nil" \/ ib.st = "nil" THEN RInt(0, ib.t)
    ELSE IF ia.v > ib.v + 1 THEN RInt(1, ib.t)
    ELSE IF ia.v < ib.v - 1 THEN RInt(-1, ib.t)
    ELSE RInt(0, ib.t)

\* PreciseCmp once a has been approximated: b follows, in a's trackers.
PreciseCmpB(ia, b, p) ==
    IF NoReturn(ia) THEN ia
    ELSE PreciseCmpOf(ia, Approximate(ia.t, b, Wrap(p - 1)))

\* PreciseCmp on two non-nil nodes: an int result in v, or a panic.
PreciseCmp(T, a, b, p) == PreciseCmpB(Approximate(T, a, Wrap(p - 1)), b, p)

\* PreciseSign once Approximate has returned ic.
PreciseSignOf(ic) ==
    IF NoReturn(ic) THEN ic
    ELSE IF ic.st = "nil" THEN RInt(0, ic.t)
    ELSE RInt(bigSign(ic.v), ic.t)

PreciseSign(T, c, p) ==
    IF T[c].IsValid /\ T[c].isNil THEN RPanic(NilDeref, T)
    ELSE IF T[c].IsValid /\ bigSign(T[c].MaxApproximation) # 0
    THEN RInt(bigSign(T[c].MaxApproximation), T)
    ELSE PreciseSignOf(Approximate(T, c, Wrap(p - 1)))

\* The first precision of the doubling loops of Cmp and Sign: -20 in the
\* source, where precisions down to -2^60 are valid; -2 with IntSize 6, so
\* that the first iterations run at valid precisions as they do there.
StartPrecision == -2

\* The loop of Cmp from precision p on.  It ends: doubling leaves the valid range.
RECURSIVE CmpLoop(_, _, _, _)
CmpStep(v, a, b, p) ==
    IF NoReturn(v) \/ v.v # 0 THEN v
    ELSE CmpLoop(v.t, a, b, Wrap(p * 2))

CmpLoop(T, a, b, p) ==
    IF ~IsPrecisionValid(p) THEN RInt(0, T)
    ELSE CmpStep(PreciseCmp(T, a, b, p), a, b, p)

Cmp(T, a, b) == CmpLoop(T, a, b, StartPrecision)

\* The loop of Sign from precision p on.  Doubling wraps p to 0, where it
\* stays; an iteration at p = 0 that returns 0 and changes no tracker
\* repeats for ever.
RECURSIVE SignLoop(_, _, _)
SignStep(r, T, c, p) ==
    IF NoReturn(r) \/ r.v # 0 THEN r
    ELSE IF p = 0 /\ r.t = T THEN RDiverges(T)
    ELSE SignLoop(r.t, c, Wrap(p * 2))

SignLoop(T, c, p) == SignStep(PreciseSign(T, c, Wrap(p - 1)), T, c, p)

Sign(T, c) == SignLoop(T, c, StartPrecision)

(***************************************************************************)
(* The exact value of a node, a fraction num/den with den > 0 (den = 0:    *)
(* undefined, the inverse of zero).                                        *)
(***************************************************************************)
RECURSIVE Val(_, _)
Val(N, c) ==
    LET x == N[c] IN
    CASE x.kind = "Int" -> [num |-> x.i, den |-> 1]
      [] x.kind = "Add" ->
            LET u == Val(N, x.a) v == Val(N, x.b) IN
            [num |-> u.num * v.den + v.num * u.den, den |-> u.den * v.den]
      [] x.kind = "Neg" ->
            LET u == Val(N, x.a) IN [num |-> -u.num, den |-> u.den]
      [] x.kind = "Shift" ->
            LET u == Val(N, x.a) IN
            IF x.n >= 0 THEN [num |-> u.num * Pow2(x.n), den |-> u.den]
            ELSE [num |-> u.num, den |-> u.den * Pow2(-x.n)]
      [] x.kind = "Mul" ->
            LET u == Val(N, x.a) v == Val(N, x.b) IN
            [num |-> u.num * v.num, den |-> u.den * v.den]
      [] x.kind = "Inv" ->
            LET u == Val(N, x.a) IN
            [num |-> bigSign(u.num) * u.den, den |-> bigAbs(u.num)]
      [] x.kind = "Cond" ->
            IF bigSign(Val(N, x.r).num) < 0 THEN Val(N, x.a) ELSE Val(N, x.b)

\* |v - x * 2^(-p)| < 1 for the fraction x.
WithinOne(v, x, p) ==
    /\ x.den > 0
    /\ IF p >= 0
       THEN bigAbs(v * x.den * Pow2(p) - x.num) < x.den * Pow2(p)
       ELSE bigAbs(v * x.den - x.num * Pow2(-p)) < x.den

\* The kinds of c and of everything below it.
RECURSIVE Kinds(_, _)
Kinds(N, c) ==
    LET x == N[c] IN
    {x.kind} \cup (IF x.a = 0 THEN {} ELSE Kinds(N, x.a))
             \cup (IF x.b = 0 THEN {} ELSE Kinds(N, x.b))
             \cup (IF x.r = 0 THEN {} ELSE Kinds(N, x.r))

(***************************************************************************)
(* FromFloat64.  A float is its three bit fields: sign s, biased exponent  *)
(* e and fraction m.  The format is binary64 made narrow: ExponentBits     *)
(* for 11 and FractionBits for 52, so that ExponentOffset stands for       *)
(* 1075 = 1023 + 52 and the exponent field of all ones for Inf and NaN.    *)
(***************************************************************************)
ExponentBits == 3
FractionBits == 2
ExponentOffset == Pow2(ExponentBits - 1) - 1 + FractionBits
InfExponent == Pow2(ExponentBits) - 1

AllFloats == [s : {0, 1}, e : 0 .. InfExponent, m : 0 .. (Pow2(FractionBits) - 1)]
FiniteFloats == {f \in AllFloats : f.e # InfExponent}

\* The number a finite float stands for, as a fraction: subnormal for e = 0.
FloatValue(f) ==
    LET sig == IF f.e = 0 THEN 2 * f.m ELSE Pow2(FractionBits) + f.m
        num == IF f.s = 1 THEN -sig ELSE sig
        x == f.e - ExponentOffset
    IN IF x >= 0 THEN [num |-> num * Pow2(x), den |-> 1]
       ELSE [num |-> num, den |-> Pow2(-x)]

\* The test f < 0 of the source: false for both zeros.
FloatIsNegative(f) == f.s = 1 /\ ~(f.e = 0 /\ f.m = 0)

\* The nodes FromFloat64 builds, the last one being the node it returns;
\* no node (nil) for Inf and NaN.
FromFloat64(f) ==
    IF f.e = InfExponent THEN <<>>
    ELSE LET exponent == f.e - ExponentOffset
             mantissa == IF exponent # 0 THEN f.m + Pow2(FractionBits) ELSE f.m * 2
             r == <<newInteger(mantissa), newShift(1, exponent)>>
         IN IF FloatIsNegative(f) THEN Append(r, newNegation(2)) ELSE r

(***************************************************************************)
(* Text.  A string is the sequence of its pieces: one character each, but  *)
(* for the opening of the failure text and the message in it.  The nodes   *)
(* Text builds for its argument c are the last nodes of the table; they    *)
(* are new at every call, so their trackers are empty when it starts and   *)
(* are dropped when it returns.                                            *)
(***************************************************************************)
DigitChars ==
    <<"0", "1", "2", "3", "4", "5", "6", "7", "8", "9", "a", "b", "c", "d", "e", "f", "g", "h",
      "i", "j", "k", "l", "m", "n", "o", "p", "q", "r", "s", "t", "u", "v", "w", "x", "y", "z">>

\* big.Int.Exp with a nil modulus: 1 for an exponent that is not positive.
bigExp(a, b) == IF b <= 0 THEN 1 ELSE a ^ b

\* big.Int.Text of a non-negative integer.
RECURSIVE bigText(_, _)
bigText(x, radix) ==
    IF x < radix THEN <<DigitChars[x + 1]>>
    ELSE Append(bigText(x \div radix, radix), DigitChars[(x % radix) + 1])

\* A variant of the padding that stops one zero short.
TextPadShort(ss, dec) ==
    IF Len(ss) <= dec THEN [j \in 1 .. (dec - Len(ss)) |-> "0"] \o ss ELSE ss

\* strings.Repeat("0", dec+1-sl) + ss when sl <= dec.
TextPad(ss, dec) ==
    IF Len(ss) <= dec THEN [j \in 1 .. (dec + 1 - Len(ss)) |-> "0"] \o ss ELSE ss

\* The radix point before the last dec digits.
TextPoint(ss, dec) ==
    IF dec > 0
    THEN LET pp == TextPad(ss, dec) IN
         SubSeq(pp, 1, Len(pp) - dec) \o <<".">> \o SubSeq(pp, Len(pp) - dec + 1, Len(pp))
    ELSE ss

\* A variant that marks everything that is not positive.
TextOfNonPositive(si, dec, radix) ==
    LET out == TextPoint(bigText(bigAbs(si), radix), dec) IN
    IF bigSign(si) <= 0 THEN <<"-">> \o out ELSE out

\* What Text makes of the approximation si of the scaled value.
TextOf(si, dec, radix) ==
    LET out == TextPoint(bigText(bigAbs(si), radix), dec) IN
    IF bigSign(si) < 0 THEN <<"-">> \o out ELSE out

\* fmt.Sprintf("<undefined: %v>", err)
Undefined(msg) == <<"<undefined: ", msg, ">">>

RText(out, T) == [st |-> "text", v |-> 0, msg |-> "", t |-> T, out |-> out]

\* The nodes Text builds for the argument at index c.
TextNodes(c, dec, radix) ==
    IF radix = 16 THEN <<newShift(c, Wrap(4 * dec))>>
    ELSE <<newInteger(bigExp(radix, dec)), newMultiplication(c, c + 1)>>

\* The table ends with the nodes of Text(c, dec, radix).
TextBuilt(c, dec, radix) ==
    /\ c \in 1 .. Len(nodes)
    /\ nodes = SubSeq(nodes, 1, c) \o TextNodes(c, dec, radix)

\* The trackers Text leaves: those of its argument and of the nodes below it.
TextLeaves(T, c) == [d \in 1 .. Len(nodes) |-> IF d <= c THEN T[d] ELSE NewTracker]

\* Text once Approximate(sc, 0) is over; the deferred function turns a
\* panic, that of bigAbs on nil included, into the failure text.
TextAfter(si, c, dec, radix) ==
    IF si.st = "diverges" THEN [RDiverges(TextLeaves(si.t, c)) EXCEPT !.st = "diverges"]
    ELSE IF si.st = "panic" THEN RText(Undefined(si.msg), TextLeaves(si.t, c))
    ELSE IF si.st = "nil" THEN RText(Undefined(NilDeref), TextLeaves(si.t, c))
    ELSE RText(TextOf(si.v, dec, radix), TextLeaves(si.t, c))

\* Text(c, dec, radix) in a table where TextBuilt(c, dec, radix).
Text(T, c, dec, radix) == TextAfter(Approximate(T, Len(nodes), 0), c, dec, radix)

(***************************************************************************)
(* The expressions under test and the calls made on them.                  *)
(***************************************************************************)
IntVals == (-MaxInt) .. MaxInt
ShiftVals == ((-MaxShift) .. MaxShift) \ {0}

MinValid == -Pow2(IntSize - 4)
MaxValid == Pow2(IntSize - 4) - 1
TestPrecisions == (MinValid - Slack) .. (MaxValid + Slack)
ValidPrecisions == {p \in TestPrecisions : IsPrecisionValid(p)}

\* Sums, negations and shifts of integers, and products of them.
TablesAlgebra ==
    {<<newInteger(i), newInteger(j), newAddition(1, 2)>> : i \in IntVals, j \in IntVals}
    \cup {<<newInteger(i), newShift(1, n), newNegation(2)>> : i \in IntVals, n \in ShiftVals}
    \cup {<<newInteger(i), newInteger(j), newMultiplication(1, 2)>> : i \in IntVals, j \in IntVals}
    \cup {<<newInteger(i), newNegation(1), newAddition(1, 2), newShift(3, n)>> :
            i \in IntVals, n \in ShiftVals}
    \cup {<<newInteger(i), newAddition(1, 1), newShift(1, 1), newMultiplication(2, 3)>> :
            i \in IntVals}

\* Products whose operands are integers and shifts of integers.
TablesMultiplication ==
    {<<newInteger(i), newInteger(j), newMultiplication(1, 2)>> : i \in IntVals, j \in IntVals}
    \cup {<<newInteger(i), newShift(1, n), newMultiplication(1, 2)>> :
            i \in IntVals, n \in ShiftVals}
    \cup {<<newInteger(i), newShift(1, n), newMultiplication(2, 1)>> :
            i \in IntVals, n \in ShiftVals}
    \cup {<<newInteger(i), newShift(1, n), newMultiplication(2, 2)>> :
            i \in IntVals, n \in ShiftVals}
    \cup {<<newInteger(i), newShift(1, -MaxShift), newInteger(MaxInt),
            newMultiplication(2, 3)>> : i \in IntVals}
    \cup {<<newInteger(i), newShift(1, -MaxShift), newInteger(MaxInt),
            newMultiplication(3, 2)>> : i \in IntVals}
    \cup {<<newInteger(i), newShift(1, -MaxShift), newInteger(MaxInt),
            newMultiplication(2, 3), newMultiplication(3, 2)>> : i \in {-MaxInt, MaxInt}}

\* Inverses of integer-valued nodes, and their inverses.
TablesInverse ==
    {<<newInteger(i), newMultiplicativeInverse(1), newMultiplicativeInverse(2)>> :
        i \in IntVals}
    \cup {<<newInteger(i), newShift(1, n), newMultiplicativeInverse(2),
            newMultiplicativeInverse(3)>> : i \in IntVals, n \in 1 .. MaxShift}
    \cup {<<newInteger(i), newNegation(1), newMultiplicativeInverse(2)>> : i \in IntVals}

\* Integers, their shifts and negations: nodes that ask their child at one
\* precision and need no guard bits.  Repeated right shifts give values too
\* small to tell from zero at any valid precision.
TablesOrder ==
    {<<newInteger(i), newInteger(j)>> : i \in IntVals, j \in IntVals}
    \cup {<<newInteger(i), newShift(1, -MaxShift), newShift(2, -MaxShift),
            newShift(3, -MaxShift)>> : i \in {-1, 1}}
    \cup {<<newInteger(i), newShift(1, n), newNegation(2)>> : i \in IntVals, n \in ShiftVals}

\* Abs(x) = newCondsign(x, Negate(x), x), Min(a, b) = newCondsign(Subtract(a, b), a, b)
\* and Max(a, b) = newCondsign(Subtract(a, b), b, a) on integers and shifts of
\* integers; Subtract(a, b) = newAddition(a, Negate(b)).  The last two
\* families hold values below the resolution of the probe.
TablesCondsign ==
    {<<newInteger(i), newNegation(1), newCondsign(1, 2, 1)>> : i \in IntVals}
    \cup {<<newInteger(i), newInteger(0), newNegation(2), newAddition(1, 3),
            newCondsign(4, 1, 2)>> : i \in {-1, 0}}
    \cup {<<newInteger(i), newInteger(0), newNegation(2), newAddition(1, 3),
            newCondsign(4, 2, 1)>> : i \in {0, 1}}
    \cup {<<newInteger(i), newShift(1, -2 * MaxShift), newNegation(2),
            newCondsign(2, 3, 2)>> : i \in {-1, 1}}
    \cup {<<newInteger(MaxInt), newShift(1, -2 * MaxShift), newShift(2, -1),
            newNegation(3), newAddition(2, 4), newCondsign(5, 2, 3)>>}

\* What FromFloat64 builds for the finite floats.
TablesFloat == {FromFloat64(f) : f \in FiniteFloats}

\* The calls of Text that are made, and what they are made on: integers,
\* right shifts and inverses of integers, each with the nodes of one call.
MaxDecimals == 2
Radixes == {2, 3, 10, 16, 36}
TextCalls == (0 .. MaxDecimals) \X Radixes

TextOperands ==
    {<<newInteger(i)>> : i \in IntVals}
    \cup {<<newInteger(i), newShift(1, -MaxShift)>> : i \in IntVals}
    \cup {<<newInteger(i), newMultiplicativeInverse(1)>> : i \in {0, 1, -2}}

TablesText ==
    {base \o TextNodes(Len(base), call[1], call[2]) : base \in TextOperands, call \in TextCalls}

NodeIds == 1 .. Len(nodes)

\* A context without a precision limit, as context.Background() is.
Background == [ok |-> FALSE, limit |-> 0]

InitOn(tables) ==
    /\ nodes \in tables
    /\ trk = [c \in 1 .. Len(nodes) |-> NewTracker]
    /\ halted = FALSE
    /\ ctx = Background
    /\ thr = <<>>
    /\ reg = <<>>

Init == InitOn(TablesAlgebra)
InitMultiplication == InitOn(TablesMultiplication)
InitInverse == InitOn(TablesInverse)
InitOrder == InitOn(TablesOrder)
InitCondsign == InitOn(TablesCondsign)
InitFloat == InitOn(TablesFloat)
InitText == InitOn(TablesText)

\* A call by the single thread leaves its trackers; after a call that never
\* returns the thread makes no other call.
Call(r) ==
    /\ ~halted
    /\ trk' = r.t
    /\ halted' = (r.st = "diverges")
    /\ UNCHANGED <<nodes, ctx, thr, reg>>

DoApproximate(c, p) == Call(Approximate(trk, c, p))

DoPreciseCmp(a, b, p) == Call(PreciseCmp(trk, a, b, p))

DoPreciseSign(c, p) == Call(PreciseSign(trk, c, p))

DoCmp(a, b) == Call(Cmp(trk, a, b))

DoSign(c) == Call(Sign(trk, c))

Next ==
    \/ \E c \in NodeIds, p \in TestPrecisions : DoApproximate(c, p)
    \/ \E a \in NodeIds : \E b \in NodeIds \ {a}, p \in TestPrecisions : DoPreciseCmp(a, b, p)
    \/ \E c \in NodeIds, p \in TestPrecisions : DoPreciseSign(c, p)
    \/ \E a \in NodeIds : \E b \in NodeIds \ {a} : DoCmp(a, b)
    \/ \E c \in NodeIds : DoSign(c)

Spec == Init /\ [][Next]_vars
SpecMultiplication == InitMultiplication /\ [][Next]_vars
SpecInverse == InitInverse /\ [][Next]_vars
SpecOrder == InitOrder /\ [][Next]_vars
SpecCondsign == InitCondsign /\ [][Next]_vars
SpecFloat == InitFloat /\ [][Next]_vars

\* The argument of Text in a table of TablesText, and the nodes a caller holds.
TextArgument == nodes[Len(nodes)].a
TextHeld == 1 .. TextArgument

DoText(dec, radix) ==
    /\ TextBuilt(TextArgument, dec, radix)
    /\ Call(Text(trk, TextArgument, dec, radix))

NextText ==
    \/ \E call \in TextCalls : DoText(call[1], call[2])
    \/ \E c \in TextHeld, p \in TestPrecisions : DoApproximate(c, p)
    \/ \E c \in TextHeld : DoSign(c)

SpecText == InitText /\ [][NextText]_vars

(***************************************************************************)
(* Properties.  A property about a call is stated over every call that     *)
(* could be made in the current state: the state holds what the earlier    *)
(* calls left in the trackers.                                             *)
(***************************************************************************)
Basic == {"Int", "Add", "Neg", "Shift"}
BasicAndMul == Basic \cup {"Mul"}

Less(x, y) == x.num * y.den < y.num * x.den
Same(x, y) == x.num * y.den = y.num * x.den

\* r is an integer within one of the value of c scaled by 2^(-p).
Approximates(r, c, p) == r.st = "int" /\ WithinOne(r.v, Val(nodes, c), p)

\* C1: for every node built from Integer, Addition, Negation and Shift and
\* every valid precision p, Approximate returns an integer a with
\* |a * 2^p - x| < 1.
C1_ApproximateWithinOne ==
    \A c \in NodeIds, p \in ValidPrecisions :
        Kinds(nodes, c) \subseteq Basic => Approximates(Approximate(trk, c, p), c, p)

\* A shift asked at a valid precision has returned nil and recorded it.
C1_ShiftReturnedNil ==
    \E c \in NodeIds :
        /\ nodes[c].kind = "Shift" /\ Kinds(nodes, c) \subseteq Basic
        /\ trk[c].IsValid /\ trk[c].isNil
        /\ IsPrecisionValid(trk[c].MinPrecision)
        /\ ~IsPrecisionValid(Wrap(trk[c].MinPrecision - nodes[c].n))

\* c is the inverse of a node whose value is a nonzero integer.
InverseOfInteger(c) ==
    /\ nodes[c].kind = "Inv"
    /\ Val(nodes, nodes[c].a).den = 1
    /\ Val(nodes, nodes[c].a).num # 0

InverseWithinOne(r, c, p) ==
    /\ Approximates(r, c, p)
    /\ Val(nodes, nodes[c].a).num < 0 => r.v <= 0

\* C2: for every nonzero integer-valued r and every valid p,
\* a = Approximate(Inverse(r), p) has |a - 2^(-p)/r| < 1 and is never
\* positive when r is negative, and PreciseCmp(Inverse(Inverse(r)), r, p) = 0.
C2_InverseWithinOne ==
    \A c \in NodeIds, p \in ValidPrecisions :
        InverseOfInteger(c) =>
            /\ InverseWithinOne(Approximate(trk, c, p), c, p)
            /\ \A d \in NodeIds :
                  (nodes[d].kind = "Inv" /\ nodes[d].a = c) =>
                      PreciseCmp(trk, d, nodes[c].a, p) = RInt(0, PreciseCmp(trk, d, nodes[c].a, p).t)

\* The inverse of a negative integer has been approximated by a positive one.
C2_NegativeInversePositive ==
    \E c \in NodeIds :
        /\ InverseOfInteger(c)
        /\ Val(nodes, nodes[c].a).num < 0
        /\ trk[c].IsValid /\ ~trk[c].isNil
        /\ trk[c].MaxApproximation > 0

\* c multiplies operands built from Integer and Shift nodes.
ProductOfShifts(c) ==
    /\ nodes[c].kind = "Mul"
    /\ Kinds(nodes, nodes[c].a) \cup Kinds(nodes, nodes[c].b) \subseteq {"Int", "Shift"}

\* C3: for operands built from Integer and Shift nodes, every valid p and
\* whatever the trackers hold, r = Approximate(Multiply(a, b), p) has
\* |r - a * b * 2^(-p)| < 1, the short-circuits to 0 included.
C3_MultiplyWithinOne ==
    \A c \in NodeIds, p \in ValidPrecisions :
        ProductOfShifts(c) => Approximates(Approximate(trk, c, p), c, p)

\* An operand's tracker gives an MSD that makes a valid request on the
\* product ask the other operand at an invalid precision.
C3_OperandAskedAtInvalidPrecision ==
    \E c \in NodeIds, p \in ValidPrecisions :
        /\ ProductOfShifts(c)
        /\ trk[nodes[c].a].IsValid /\ ~trk[nodes[c].a].isNil
        /\ bigAbs(trk[nodes[c].a].MaxApproximation) > 1
        /\ ~IsPrecisionValid(Wrap(p - knownMSD(trk, nodes[c].a).v - 3))
        /\ Approximate(trk, c, p).st = "panic"

\* The tracker of c answers a request at p.
Answers(t, p) == t.IsValid /\ p >= t.MinPrecision

\* With children approximated by xa and yb, each within one, the sum r is
\* scale(xa + yb, -2) and is within one.
AdditionFromChildren(c, p, xa, yb, r) ==
    (Approximates(xa, nodes[c].a, p - 2) /\ Approximates(yb, nodes[c].b, p - 2)) =>
        /\ r.st = "int"
        /\ r.v = scale(xa.v + yb.v, -2)
        /\ WithinOne(r.v, Val(nodes, c), p)

AdditionAfter(c, p, xa) ==
    AdditionFromChildren(c, p, xa, Approximate(xa.t, nodes[c].b, p - 2),
                         Approximate(trk, c, p))

\* C4: for children whose approximations have error < 1 and p, p - 2 valid,
\* the addition, computing at p, returns
\* scale(Approximate(x, p - 2) + Approximate(y, p - 2), -2), a value within
\* one of (x + y) * 2^(-p), whether the children compute or answer from
\* their trackers.
C4_AdditionGuardBits ==
    \A c \in NodeIds, p \in ValidPrecisions :
        (/\ nodes[c].kind = "Add"
         /\ IsPrecisionValid(Wrap(p - 2))
         /\ ~Answers(trk[c], p)) =>
            AdditionAfter(c, p, Approximate(trk, nodes[c].a, p - 2))

\* An addition has computed a nonzero sum from children that now answer
\* from their trackers, and can be asked at a finer valid precision.
C4_AdditionComputed ==
    \E c \in NodeIds :
        /\ nodes[c].kind = "Add"
        /\ trk[c].IsValid /\ ~trk[c].isNil /\ trk[c].MaxApproximation # 0
        /\ trk[nodes[c].a].IsValid /\ trk[nodes[c].b].IsValid
        /\ trk[nodes[c].a].MinPrecision = trk[c].MinPrecision - 2
        /\ trk[nodes[c].b].MinPrecision = trk[c].MinPrecision - 2
        /\ trk[c].MaxApproximation =
              scale(trk[nodes[c].a].MaxApproximation + trk[nodes[c].b].MaxApproximation, -2)
        /\ IsPrecisionValid(trk[c].MinPrecision - 3)

\* C5: whenever the tracker of a node built from Integer, Addition,
\* Negation, Shift and Multiplication is valid, for every valid
\* p >= lastPrecision the value it serves,
\* scale(lastApproximation, lastPrecision - p), is an integer within one of
\* x * 2^(-p).
C5_TrackerServesWithinOne ==
    \A c \in NodeIds, p \in ValidPrecisions :
        (Kinds(nodes, c) \subseteq BasicAndMul /\ Answers(trk[c], p)) =>
            Approximates(TrackerGet(trk, c, p), c, p)

\* A valid tracker holds nil, and serving from it fails.
C5_ValidTrackerHoldsNil ==
    \E c \in NodeIds :
        /\ Kinds(nodes, c) \subseteq BasicAndMul
        /\ trk[c].IsValid /\ trk[c].isNil
        /\ TrackerGet(trk, c, trk[c].MinPrecision).st = "panic"

\* A miss at p that returns leaves the pair (p, value returned) in the tracker.
MissStores ==
    \A c \in NodeIds, p \in ValidPrecisions :
        ~Answers(trk[c], p) =>
            LET r == Approximate(trk, c, p) IN
            r.st \in {"int", "nil"} =>
                r.t[c] = [IsValid |-> TRUE, isNil |-> (r.st = "nil"),
                          MaxApproximation |-> r.v, MinPrecision |-> p]

\* A call leaves every valid tracker valid, at a precision not above the old one.
Refines ==
    \A c \in NodeIds :
        trk[c].IsValid =>
            trk'[c].IsValid /\ trk'[c].MinPrecision <= trk[c].MinPrecision

\* C6: over any sequence of Approximate, PreciseCmp, PreciseSign, Cmp and
\* Sign calls a tracker, once valid, stays valid, its precision never
\* increases, and after a miss at valid p it holds exactly the pair
\* (p, value returned).
C6_TrackerRefinementOnly == [][Refines]_vars /\ []MissStores

\* A tracker has been refined: a node's entry is finer than the one its
\* parent's request would have left, and a finer valid precision remains.
C6_TrackerRefined ==
    \E c \in NodeIds :
        /\ nodes[c].kind = "Add"
        /\ trk[c].IsValid /\ trk[nodes[c].a].IsValid
        /\ trk[nodes[c].a].MinPrecision < trk[c].MinPrecision - 2
        /\ IsPrecisionValid(trk[c].MinPrecision - 1)

\* C7: when the tracker of x is valid and the valid p is >= lastPrecision,
\* Approximate(x, p) answers from the tracker and leaves every tracker as
\* it was.
C7_HitLeavesTrackers ==
    \A c \in NodeIds, p \in ValidPrecisions :
        (trk[c].IsValid /\ p >= trk[c].MinPrecision) =>
            /\ Approximate(trk, c, p).t = trk
            /\ Approximate(trk, c, p).st = "int" =>
                  Approximate(trk, c, p).v =
                      scale(trk[c].MaxApproximation, trk[c].MinPrecision - p)

\* A composite node whose tracker holds an entry is asked at a coarser
\* precision, and the rescaled answer differs from the stored approximation.
C7_HitAboveStoredPrecision ==
    \E c \in NodeIds, p \in ValidPrecisions :
        /\ nodes[c].kind \in {"Add", "Mul"}
        /\ trk[c].IsValid /\ ~trk[c].isNil
        /\ p > trk[c].MinPrecision
        /\ trk[nodes[c].a].IsValid
        /\ Approximate(trk, c, p).v # trk[c].MaxApproximation

\* Every machine integer, and its top four bits as a number 0 .. 15.
MachineInts == MinInt .. (-MinInt - 1)
TopFourBits(p) == ((p + Pow2(IntSize)) % Pow2(IntSize)) \div Pow2(IntSize - 4)

\* IsPrecisionValid(p) exactly when the top four bits are all 0 or all 1.
ValidIffTopBitsEqual ==
    \A p \in MachineInts : IsPrecisionValid(p) <=> TopFourBits(p) \in {0, 15}

\* At a precision that is not valid Approximate returns nil and leaves the trackers.
InvalidReturnsNil ==
    \A c \in NodeIds, p \in TestPrecisions :
        ~IsPrecisionValid(p) => Approximate(trk, c, p) = RNil(trk)

\* The tracker of c holds nothing PreciseSign would answer from.
NoSignInTracker(c) ==
    ~trk[c].IsValid \/ (~trk[c].isNil /\ trk[c].MaxApproximation = 0)

\* C8 as stated: validity is the top four bits being equal; at every p that
\* is not valid Approximate returns nil and touches no tracker, and
\* PreciseCmp and PreciseSign at that p return 0.
C8_InvalidPrecisionGivesZero ==
    /\ ValidIffTopBitsEqual
    /\ InvalidReturnsNil
    /\ \A p \in TestPrecisions :
          ~IsPrecisionValid(p) =>
              /\ \A a \in NodeIds : \A b \in NodeIds \ {a} :
                    PreciseCmp(trk, a, b, p) = RInt(0, trk)
              /\ \A c \in NodeIds : PreciseSign(trk, c, p) = RInt(0, trk)

\* C8: validity is the top four bits being equal; at every p that is not
\* valid Approximate returns nil and touches no tracker; PreciseCmp(a, b, p)
\* returns 0 when p - 1, the precision it asks at, is not valid, and so does
\* PreciseSign(x, p) unless the tracker of x holds a sign to answer from.
C8_InvalidPrecision ==
    /\ ValidIffTopBitsEqual
    /\ InvalidReturnsNil
    /\ \A p \in TestPrecisions :
          ~IsPrecisionValid(Wrap(p - 1)) =>
              /\ \A a \in NodeIds : \A b \in NodeIds \ {a} :
                    PreciseCmp(trk, a, b, p) = RInt(0, trk)
              /\ \A c \in NodeIds :
                    NoSignInTracker(c) => PreciseSign(trk, c, p) = RInt(0, trk)

\* Trackers hold entries, one of them the approximation 0, and calls at a
\* precision that is not valid are at hand.
C8_InvalidPrecisionAsked ==
    \E c \in NodeIds, p \in TestPrecisions :
        /\ ~IsPrecisionValid(p) /\ ~IsPrecisionValid(Wrap(p - 1))
        /\ trk[c].IsValid /\ NoSignInTracker(c)
        /\ \E d \in NodeIds \ {c} : trk[d].IsValid /\ ~NoSignInTracker(d)
        /\ Approximate(trk, c, p).st = "nil"
        /\ PreciseSign(trk, c, p).v = 0

\* C9: for every valid p, also where the inner precisions a composite asks
\* for are not valid, Approximate on a node built from Integer, Addition,
\* Negation, Shift and Multiplication returns an integer and does not fail,
\* and nil is never stored in a tracker.
C9_ApproximateTotal ==
    /\ \A c \in NodeIds, p \in ValidPrecisions :
          Kinds(nodes, c) \subseteq BasicAndMul => Approximate(trk, c, p).st = "int"
    /\ \A c \in NodeIds : trk[c].IsValid => ~trk[c].isNil

\* An addition whose children have answered fails at a valid precision two
\* above an invalid one.
C9_AdditionFailsAtBoundary ==
    \E c \in NodeIds, p \in ValidPrecisions :
        /\ nodes[c].kind = "Add"
        /\ trk[nodes[c].a].IsValid /\ trk[nodes[c].b].IsValid
        /\ ~IsPrecisionValid(Wrap(p - 2))
        /\ Approximate(trk, c, p) = RPanic(NilDeref, trk)

\* The answer v of PreciseCmp(a, b, p) agrees with the values of a and b.
RightOrder(a, b, v) ==
    /\ v = 1 => Less(Val(nodes, b), Val(nodes, a))
    /\ v = -1 => Less(Val(nodes, a), Val(nodes, b))
    /\ Same(Val(nodes, a), Val(nodes, b)) => v = 0

\* C10: for a and b built from Integer, Addition, Negation, Shift and
\* Multiplication, any p with p - 1 valid and any tracker contents,
\* PreciseCmp(a, b, p) = 1 implies a > b, -1 implies a < b, and it is 0
\* when a and b have the same value.
C10_PreciseCmpSound ==
    \A a \in NodeIds : \A b \in NodeIds \ {a}, p \in TestPrecisions :
        (/\ IsPrecisionValid(Wrap(p - 1))
         /\ Kinds(nodes, a) \cup Kinds(nodes, b) \subseteq BasicAndMul) =>
            /\ PreciseCmp(trk, a, b, p).st = "int"
            /\ RightOrder(a, b, PreciseCmp(trk, a, b, p).v)

\* A comparison at p with p - 1 valid gives no answer: the sum asks its
\* children, which have entries, at a precision that is not valid.
C10_PreciseCmpFails ==
    \E a \in NodeIds : \E b \in NodeIds \ {a}, p \in TestPrecisions :
        /\ nodes[a].kind = "Add"
        /\ IsPrecisionValid(Wrap(p - 1))
        /\ trk[b].IsValid /\ trk[nodes[a].a].IsValid
        /\ PreciseCmp(trk, a, b, p).st = "panic"

\* The sign of the value of c.
ValSign(c) == bigSign(Val(nodes, c).num)

\* An answer of 1 or -1 gives the order of the values of a and b.
OrderAnswered(a, b, r) ==
    /\ r.st # "diverges"
    /\ (r.st = "int" /\ r.v = 1) => Less(Val(nodes, b), Val(nodes, a))
    /\ (r.st = "int" /\ r.v = -1) => Less(Val(nodes, a), Val(nodes, b))

C13_SignDecides ==
    \A c \in NodeIds :
        ValSign(c) # 0 =>
            /\ Sign(trk, c) = RInt(ValSign(c), Sign(trk, c).t)
            /\ \A p \in TestPrecisions :
                  (PreciseSign(trk, c, p).st = "int" /\ PreciseSign(trk, c, p).v # 0) =>
                      PreciseSign(trk, c, p).v = ValSign(c)

\* Sign has been called on a nonzero node and does not return: every node
\* of the table is nonzero.
C13_SignOfNonzeroDiverges ==
    /\ halted
    /\ \A c \in NodeIds : ValSign(c) # 0
    /\ \E c \in NodeIds : trk[c].IsValid /\ ~trk[c].isNil /\ trk[c].MaxApproximation = 0

\* C14: Sign(c) never terminates when c is zero: no iteration of the
\* doubling loop returns, also after p has left the valid range and has
\* wrapped around.
C14_SignOfZeroDiverges ==
    \A c \in NodeIds : ValSign(c) = 0 => Sign(trk, c).st = "diverges"

\* The tracker of a zero-valued shift holds nil, and Sign fails on it.
C14_SignOfZeroFails ==
    \E c \in NodeIds :
        /\ ValSign(c) = 0 /\ nodes[c].kind = "Shift"
        /\ trk[c].IsValid /\ trk[c].isNil
        /\ Sign(trk, c) = RPanic(NilDeref, trk)

(***************************************************************************)
(* The inverse of a node whose value is zero.                              *)
(***************************************************************************)
InverseOfZero(c) ==
    /\ nodes[c].kind = "Inv"
    /\ Kinds(nodes, nodes[c].a) \subseteq Basic
    /\ ValSign(nodes[c].a) = 0

\* C16 as stated: Approximate on the inverse of a zero-valued node fails with
\* a division by zero at every valid precision, the positive ones included,
\* and never returns an integer.
C16_InverseOfZeroFails ==
    \A c \in NodeIds : InverseOfZero(c) =>
        \A p \in ValidPrecisions :
            LET r == Approximate(trk, c, p) IN
            r.st = "panic" /\ r.msg = DivByZero

\* The inverse of a zero-valued node has been approximated at a positive
\* precision and its tracker holds the integer 0 that the call returned.
C16_InverseOfZeroReturnedZero ==
    \E c \in NodeIds :
        /\ InverseOfZero(c)
        /\ trk[c].IsValid /\ ~trk[c].isNil
        /\ trk[c].MaxApproximation = 0
        /\ trk[c].MinPrecision > 0

(***************************************************************************)
(* Abs, Min and Max.                                                       *)
(***************************************************************************)
\* C15 as stated: for Abs, Min and Max of integers and shifts of integers
\* Approximate returns, at every valid precision, an integer within 1 of the
\* scaled value, also when the operand is zero, when the operands are equal
\* and when they are too close for the probe of the condition to be nonzero.
C15_CondsignWithinOne ==
    \A c \in NodeIds : nodes[c].kind = "Cond" =>
        \A p \in ValidPrecisions : Approximates(Approximate(trk, c, p), c, p)

\* Min of two operands too close for the probe has been approximated; no
\* tracker holds nil, and what the call returned and stored is not within 1
\* of the scaled minimum.
C15_MinOffByMoreThanOne ==
    \E c \in NodeIds :
        /\ nodes[c].kind = "Cond"
        /\ nodes[nodes[c].r].kind = "Add"
        /\ \A d \in NodeIds : trk[d].IsValid => ~trk[d].isNil
        /\ trk[nodes[c].r].IsValid /\ trk[nodes[c].r].MaxApproximation = 0
        /\ trk[c].IsValid
        /\ ~WithinOne(trk[c].MaxApproximation, Val(nodes, c), trk[c].MinPrecision)

(***************************************************************************)
(* FromFloat64.                                                            *)
(***************************************************************************)
\* C20 as stated: the node FromFloat64 returns for a finite float denotes
\* exactly that float, for every exponent field: zero (zeros and subnormals),
\* ExponentOffset (1075 in binary64) and all others.
C20_FromFloat64Exact ==
    \A f \in FiniteFloats :
        nodes = FromFloat64(f) => Same(Val(nodes, Len(nodes)), FloatValue(f))

\* The node built for the float +0 has been approximated and its tracker
\* holds an integer that is not zero.
C20_ZeroIsNotZero ==
    /\ nodes = FromFloat64([s |-> 0, e |-> 0, m |-> 0])
    /\ trk[Len(nodes)].IsValid /\ ~trk[Len(nodes)].isNil
    /\ trk[Len(nodes)].MaxApproximation # 0

(***************************************************************************)
(* Text.                                                                   *)
(***************************************************************************)
\* The calls Text(TextArgument, dec, radix) that can be made in this table.
TextCallsHere == {call \in TextCalls : TextBuilt(TextArgument, call[1], call[2])}

\* The approximation of the scaled value that a call of Text would get now.
ScaledApproximation == Approximate(trk, Len(nodes), 0)

\* C17 as stated: Text of the inverse of a zero-valued node returns exactly
\* the failure text of a division by zero, for every number of decimals and
\* every radix.
C17_TextOfInverseOfZero ==
    \A call \in TextCallsHere :
        InverseOfZero(TextArgument) =>
            LET r == Text(trk, TextArgument, call[1], call[2]) IN
            r.st = "text" /\ r.out = Undefined(DivByZero)

\* The operand of an inverse has been approximated, it is zero, and Text of
\* the inverse returns a failure text whose message is not that of a
\* division by zero.
C17_TextOfInverseOfZeroOtherMessage ==
    \E call \in TextCallsHere :
        /\ InverseOfZero(TextArgument)
        /\ trk[nodes[TextArgument].a].IsValid
        /\ Text(trk, TextArgument, call[1], call[2]) =
               RText(Undefined(NilDeref), TextLeaves(trk, TextArgument))

\* The value of a digit character.
DigitValue(ch) == CHOOSE d \in 0 .. 35 : DigitChars[d + 1] = ch

\* The number a sequence of digits of that radix stands for.
RECURSIVE DigitsValue(_, _)
DigitsValue(ds, radix) ==
    IF ds = <<>> THEN 0
    ELSE DigitsValue(SubSeq(ds, 1, Len(ds) - 1), radix) * radix + DigitValue(ds[Len(ds)])

IsDigit(ch, radix) == \E d \in 0 .. (radix - 1) : DigitChars[d + 1] = ch

\* out is: an optional "-", one or more digits, ".", exactly dec digits; the
\* digits are those of |si|; a single 0 before the point when |si| < radix^dec.
FixedPoint(out, si, dec, radix) ==
    LET body == IF out # <<>> /\ out[1] = "-" THEN Tail(out) ELSE out
        k == Len(body) - dec
        ds == SubSeq(body, 1, k - 1) \o SubSeq(body, k + 1, Len(body))
    IN /\ k >= 2
       /\ body[k] = "."
       /\ \A j \in 1 .. Len(ds) : IsDigit(ds[j], radix)
       /\ DigitsValue(ds, radix) = bigAbs(si)
       /\ k > 2 => body[1] # "0"
       /\ bigAbs(si) < radix ^ dec => (k = 2 /\ body[1] = "0")

\* The last node of the table has the value of the argument times radix^dec.
ScaledByRadix(dec, radix) ==
    LET x == Val(nodes, TextArgument)
        y == Val(nodes, Len(nodes))
    IN y.num * x.den = x.num * (radix ^ dec) * y.den

\* C18: for decimals > 0 every result of Text that is not a failure text is an
\* optional "-", one or more digits, ".", and exactly `decimals` digits, with a
\* single 0 before the point for a magnitude below 1; the digits are those of
\* the absolute value of the approximation at precision 0 of x * radix^decimals.
\* The same holds for the text made of any integer a tracker holds.
C18_TextFixedPoint ==
    /\ \A call \in TextCallsHere :
          (call[1] > 0 /\ ScaledApproximation.st = "int") =>
              /\ Val(nodes, TextArgument).den > 0 => ScaledByRadix(call[1], call[2])
              /\ FixedPoint(Text(trk, TextArgument, call[1], call[2]).out,
                            ScaledApproximation.v, call[1], call[2])
    /\ \A c \in TextHeld : \A call \in TextCalls :
          (call[1] > 0 /\ trk[c].IsValid /\ ~trk[c].isNil) =>
              FixedPoint(TextOf(trk[c].MaxApproximation, call[1], call[2]),
                         trk[c].MaxApproximation, call[1], call[2])

\* Text with decimals > 0 has been called on a nonzero value of magnitude
\* below 1 and returns a 0, the point and the digits.
C18_TextPadded ==
    \E call \in TextCallsHere :
        /\ call[1] > 0
        /\ trk[TextArgument].IsValid
        /\ ValSign(TextArgument) # 0
        /\ ScaledApproximation.st = "int" /\ ScaledApproximation.v # 0
        /\ LET out == Text(trk, TextArgument, call[1], call[2]).out IN
           Len(out) = call[1] + 2 /\ out[1] = "0" /\ out[2] = "."

RefinesWithinOne(r1, r2, p1, p2) ==
    /\ r1.st = "int" /\ r2.st = "int"
    /\ bigAbs(r2.v - r1.v * Pow2(p1 - p2)) <= Pow2(p1 - p2)

\* The coarser p1 was asked first, the finer p2 follows in its trackers.
CoarserFirst(r1, c, p1, p2) == RefinesWithinOne(r1, Approximate(r1.t, c, p2), p1, p2)

\* The finer p2 was asked first, the coarser p1 follows in its trackers.
FinerFirst(r2, c, p1, p2) == RefinesWithinOne(Approximate(r2.t, c, p1), r2, p1, p2)

\* C21 as stated: for a node built from integers, sums, negations, shifts and
\* products and valid precisions p1 > p2, the approximation at p2 scaled to p1
\* is within 1 of the approximation at p1, whichever of the two is asked first.
C21_MonotoneRefinement ==
    \A c \in NodeIds : Kinds(nodes, c) \subseteq BasicAndMul =>
        \A p1 \in ValidPrecisions : \A p2 \in ValidPrecisions : p1 > p2 =>
            /\ CoarserFirst(Approximate(trk, c, p1), c, p1, p2)
            /\ FinerFirst(Approximate(trk, c, p2), c, p1, p2)

\* The finer precision was asked first on a shift and gave nil, which its
\* tracker holds; asking a coarser valid precision now panics.
C21_CoarserAfterNilFails ==
    \E c \in NodeIds :
        /\ Kinds(nodes, c) \subseteq BasicAndMul
        /\ trk[c].IsValid /\ trk[c].isNil /\ IsPrecisionValid(trk[c].MinPrecision)
        /\ \E p1 \in ValidPrecisions :
              p1 > trk[c].MinPrecision /\ Approximate(trk, c, p1) = RPanic(NilDeref, trk)

(***************************************************************************)
(* scale.                                                                  *)
(***************************************************************************)
\* The integers scale is applied to: those of the integer nodes and those
\* the trackers hold; and the shifts it is applied with.
Scaled ==
    {nodes[c].i : c \in {d \in NodeIds : nodes[d].kind = "Int"}}
    \cup {trk[c].MaxApproximation : c \in {d \in NodeIds : trk[d].IsValid /\ ~trk[d].isNil}}
ScaleShifts == (-(IntSize - 2)) .. (IntSize - 2)

\* q is i / 2^k rounded to the nearest integer, a tie going up.
NearestTiesUp(q, i, k) ==
    (2 * q - 1) * Pow2(k) <= 2 * i /\ 2 * i < (2 * q + 1) * Pow2(k)

\* q is i / 2^k rounded to the nearest integer, a tie going away from zero.
NearestTiesAway(q, i, k) ==
    IF i >= 0 THEN NearestTiesUp(q, i, k)
    ELSE (2 * q - 1) * Pow2(k) < 2 * i /\ 2 * i <= (2 * q + 1) * Pow2(k)

\* C26 as stated: scale(i, n) is i * 2^n for n >= 0 and, for n < 0, i * 2^n
\* rounded to the nearest integer with ties away from zero, negative i included.
C26_ScaleTiesAwayFromZero ==
    \A i \in Scaled : \A n \in ScaleShifts :
        IF n >= 0 THEN scale(i, n) = i * Pow2(n) ELSE NearestTiesAway(scale(i, n), i, -n)

\* C26: scale(i, n) is i * 2^n for n >= 0 and, for n < 0, i * 2^n rounded to
\* the nearest integer with ties going up (towards plus infinity), for
\* negative i as for positive i.
C26_ScaleTiesUp ==
    \A i \in Scaled : \A n \in ScaleShifts :
        IF n >= 0 THEN scale(i, n) = i * Pow2(n) ELSE NearestTiesUp(scale(i, n), i, -n)

\* A tracker holds a negative odd integer and the next coarser precision is
\* served from it: the tie -v/2 goes up, to (v + 1) / 2.
C26_NegativeTieGoesUp ==
    \E c \in NodeIds :
        /\ trk[c].IsValid /\ ~trk[c].isNil
        /\ trk[c].MaxApproximation < 0 /\ trk[c].MaxApproximation % 2 = 1
        /\ IsPrecisionValid(trk[c].MinPrecision + 1)
        /\ Approximate(trk, c, trk[c].MinPrecision + 1) =
               RInt((trk[c].MaxApproximation + 1) \div 2, trk)

(***************************************************************************)
(* The answer of Approximate and the requests made before it.              *)
(***************************************************************************)
\* The trackers of a table on which nothing has been asked yet.
EmptyTrackers == [c \in NodeIds |-> NewTracker]

\* All that has happened is one request on c, at q, and it stored its answer.
AskedOnce(c, q) == trk[c].IsValid /\ trk = Approximate(EmptyTrackers, c, q).t

\* b is an integer => a is the same integer.
SameInteger(a, b) == b.st = "int" => (a.st = "int" /\ a.v = b.v)

\* Two integers differ by at most 1.
DifferByOne(a, b) == (a.st = "int" /\ b.st = "int") => bigAbs(a.v - b.v) <= 1

\* C29 as stated: after one earlier request on x, at a coarser or at a finer
\* precision, Approximate(x, p) returns the integer it returns when nothing
\* was asked before.
C29_HistoryIndependent ==
    \A c \in NodeIds : \A q \in ValidPrecisions : AskedOnce(c, q) =>
        \A p \in ValidPrecisions :
            SameInteger(Approximate(trk, c, p), Approximate(EmptyTrackers, c, p))

\* C29: for a node built from integers, sums, negations, shifts and products,
\* whatever was asked before, the integer Approximate(x, p) returns differs
\* by at most 1 from the integer it returns when nothing was asked before;
\* an integer entry at a precision not coarser than p is served rescaled,
\* without a new computation.
C29_HistoryWithinOne ==
    \A c \in NodeIds : \A p \in ValidPrecisions : Kinds(nodes, c) \subseteq BasicAndMul =>
        /\ DifferByOne(Approximate(trk, c, p), Approximate(EmptyTrackers, c, p))
        /\ (trk[c].IsValid /\ ~trk[c].isNil /\ p >= trk[c].MinPrecision) =>
              Approximate(trk, c, p) =
                  RInt(scale(trk[c].MaxApproximation, trk[c].MinPrecision - p), trk)

\* One finer request was made on a node, no tracker holds nil, and a coarser
\* request is now served with an integer other than the one it gets on
\* empty trackers.
C29_RescaledAnswerDiffers ==
    \E c \in NodeIds : \E q \in ValidPrecisions :
        /\ AskedOnce(c, q)
        /\ \A d \in NodeIds : trk[d].IsValid => ~trk[d].isNil
        /\ \E p \in ValidPrecisions :
              /\ p > q
              /\ Approximate(trk, c, p).st = "int"
              /\ Approximate(EmptyTrackers, c, p).st = "int"
              /\ Approximate(trk, c, p).v # Approximate(EmptyTrackers, c, p).v

----------------------------------------------------------------------------
\* Multiplication when only the second operand shows a leading bit.

HalfPrecision(p) == Wrap(Sar(p, 1) - 1)

\* d multiplies the operands of c the other way round.
Mirrors(c, d) ==
    /\ nodes[c].kind = "Mul"
    /\ nodes[d].kind = "Mul"
    /\ nodes[c].a # nodes[c].b
    /\ nodes[d].a = nodes[c].b
    /\ nodes[d].b = nodes[c].a

\* On fresh nodes msd(a, hp) is unknown and msd(b, hp) is known.
OnlySecondKnown(c, p) ==
    LET ma == msd(EmptyTrackers, nodes[c].a, HalfPrecision(p))
    IN  /\ ma.st = "int"
        /\ ma.v = MinInt
        /\ msd(EmptyTrackers, nodes[c].b, HalfPrecision(p)).st = "int"
        /\ msd(EmptyTrackers, nodes[c].b, HalfPrecision(p)).v # MinInt

\* Both products, each evaluated on fresh nodes, leave the same entry in the
\* trackers of both operands.
SameRequests(c, d, p) ==
    /\ Approximate(EmptyTrackers, c, p).t[nodes[c].a]
          = Approximate(EmptyTrackers, d, p).t[nodes[c].a]
    /\ Approximate(EmptyTrackers, c, p).t[nodes[c].b]
          = Approximate(EmptyTrackers, d, p).t[nodes[c].b]

\* C28 (as stated): when msd(a, hp) is unknown and msd(b, hp) is known,
\* Approximate(Multiply(a, b), p) and Approximate(Multiply(b, a), p), each on
\* fresh nodes, return the same integer and request the same precisions from
\* each operand.
C28_SwapActsAsMirroredProduct ==
    \A c \in NodeIds : \A d \in NodeIds : \A p \in ValidPrecisions :
        (Mirrors(c, d) /\ OnlySecondKnown(c, p)) =>
            /\ Approximate(EmptyTrackers, c, p).st = Approximate(EmptyTrackers, d, p).st
            /\ Approximate(EmptyTrackers, c, p).v = Approximate(EmptyTrackers, d, p).v
            /\ SameRequests(c, d, p)

\* C28: the product a * b has been evaluated once, with only msd(b, hp) known,
\* and returned the integer that b * a returns, but it left b's tracker at a
\* precision that b * a does not request.
C28_SwapRequestsDiffer ==
    \E c \in NodeIds : \E d \in NodeIds : \E p \in ValidPrecisions :
        /\ Mirrors(c, d)
        /\ OnlySecondKnown(c, p)
        /\ trk[c].IsValid
        /\ trk = Approximate(EmptyTrackers, c, p).t
        /\ Approximate(EmptyTrackers, c, p).st = "int"
        /\ Approximate(EmptyTrackers, d, p).st = "int"
        /\ Approximate(EmptyTrackers, c, p).v = Approximate(EmptyTrackers, d, p).v
        /\ trk[nodes[c].b].MinPrecision
              # Approximate(EmptyTrackers, d, p).t[nodes[c].b].MinPrecision

----------------------------------------------------------------------------
\* The precision limit carried by a context (precision_limit.go).  A context
\* is the value found under precisionLimitKey: ok says an int is stored.

MathMaxInt == Pow2(IntSize - 1) - 1

WithoutPrecisionLimit(parent) == [ok |-> TRUE, limit |-> MathMaxInt]

WithPrecisionLimit(parent, limit) ==
    [ok |-> TRUE, limit |-> IF limit < 0 THEN Wrap(-limit) ELSE limit]

PrecisionLimit(c) == c

CheckPrecisionOverflow(c, p) ==
    IF PrecisionLimit(c).ok /\ PrecisionLimit(c).limit >= 0 /\ p > PrecisionLimit(c).limit
    THEN "PrecisionOverflow"
    ELSE "nil"

\* Two integers and their comparison under a context; 1/2 so that Sign and
\* Cmp have an operand that is not an integer.
TablesLimit ==
    {<<newInteger(i), newInteger(j)>> : i \in {0, 1}, j \in {0, 1}}
    \cup {<<newInteger(1), newShift(1, -1)>>}

InitLimit == InitOn(TablesLimit)

DoWithPrecisionLimit(limit) ==
    /\ ~halted
    /\ ctx' = WithPrecisionLimit(ctx, limit)
    /\ UNCHANGED <<nodes, trk, halted, thr, reg>>

DoWithoutPrecisionLimit ==
    /\ ~halted
    /\ ctx' = WithoutPrecisionLimit(ctx)
    /\ UNCHANGED <<nodes, trk, halted, thr, reg>>

\* The caller keeps the precision it asked about and the error returned.
DoCheckPrecisionOverflow(p) ==
    /\ ~halted
    /\ reg' = <<p, CheckPrecisionOverflow(ctx, p)>>
    /\ UNCHANGED <<nodes, trk, halted, ctx, thr>>

\* Approximate, Cmp and Sign take no context: they run as they do without one.
NextLimit ==
    \/ \E limit \in {MinInt, -MaxShift, 0, MaxShift} : DoWithPrecisionLimit(limit)
    \/ DoWithoutPrecisionLimit
    \/ \E p \in {MinInt, -MaxInt, 0, MaxInt} : DoCheckPrecisionOverflow(p)
    \/ \E c \in NodeIds, p \in TestPrecisions : DoApproximate(c, p)
    \/ \E a \in NodeIds : \E b \in NodeIds \ {a} : DoCmp(a, b)
    \/ \E c \in NodeIds : DoSign(c)

SpecLimit == InitLimit /\ [][NextLimit]_vars

\* The context holds a limit put there by WithPrecisionLimit with a limit
\* smaller than math.MaxInt, which is what WithoutPrecisionLimit stores.
LimitInEffect == ctx.ok /\ ctx.limit # MathMaxInt

\* C23 (as stated): with a limit L installed, CheckPrecisionOverflow(ctx, p)
\* returns PrecisionOverflow exactly when |p| exceeds |L|, for negative p as
\* for positive p, and it returns nil for every p when there is no limit.
C23_OverflowExactlyBeyondLimit ==
    \A p \in MachineInts :
        /\ LimitInEffect =>
              (CheckPrecisionOverflow(ctx, p) = "PrecisionOverflow"
                  <=> bigAbs(p) > bigAbs(ctx.limit))
        /\ ~ctx.ok => CheckPrecisionOverflow(ctx, p) = "nil"

\* C23: a limit is installed, and the caller was told nil about a negative
\* precision whose magnitude exceeds it.
C23_NegativeBeyondLimitPasses ==
    /\ LimitInEffect
    /\ ctx.limit >= 0
    /\ Len(reg) = 2
    /\ reg[1] < 0
    /\ bigAbs(reg[1]) > ctx.limit
    /\ reg[2] = "nil"

\* C24 (as stated): while a limit is in effect no Approximate proceeds at a
\* precision whose magnitude exceeds it, and Cmp and Sign stop: no call runs
\* without end.
C24_LimitStopsEvaluation ==
    LimitInEffect =>
        /\ ~halted
        /\ \A c \in NodeIds : Sign(trk, c).st # "diverges"
        /\ \A c \in NodeIds : \A p \in ValidPrecisions :
              bigAbs(p) > ctx.limit => Approximate(trk, c, p).st # "int"

\* C24: a limit is in effect, an approximation was stored at a precision beyond
\* it, and Sign of zero, called under it, never returns.
C24_SignOfZeroRunsOnUnderLimit ==
    /\ LimitInEffect
    /\ \E c \in NodeIds : ValSign(c) = 0 /\ Sign(trk, c).st = "diverges"
    /\ \E c \in NodeIds : trk[c].IsValid /\ bigAbs(trk[c].MinPrecision) > ctx.limit

----------------------------------------------------------------------------
\* Two threads calling Approximate on one shared integer node.  The tracker
\* has no lock, so a step of a thread is one read or one write of one field
\* of the tracker, in the order Approximate, Get and Set make them.

Threads == {1, 2}
Shared == 1

Idle == [pc |-> "idle", p |-> 0, isNil |-> TRUE, ma |-> 0, st |-> "none", v |-> 0]

InitConcurrent ==
    /\ nodes \in {<<newInteger(i)>> : i \in {1, MaxInt, -MaxInt}}
    /\ trk = [c \in 1 .. Len(nodes) |-> NewTracker]
    /\ halted = FALSE
    /\ ctx = Background
    /\ thr = [t \in Threads |-> Idle]
    /\ reg = <<>>

Step(t, next) ==
    /\ thr' = [thr EXCEPT ![t] = next]
    /\ UNCHANGED <<nodes, trk, halted, ctx, reg>>

Write(t, entry, next) ==
    /\ trk' = [trk EXCEPT ![Shared] = entry]
    /\ thr' = [thr EXCEPT ![t] = next]
    /\ UNCHANGED <<nodes, halted, ctx, reg>>

\* Approximate(c, p) is entered; p is valid.
Begin(t, p) ==
    /\ thr[t].pc \in {"idle", "done"}
    /\ IsPrecisionValid(p)
    /\ Step(t, [Idle EXCEPT !.pc = "Get.IsValid", !.p = p])

\* Get: t.IsValid
GetIsValid(t) ==
    /\ thr[t].pc = "Get.IsValid"
    /\ Step(t, [thr[t] EXCEPT !.pc = IF trk[Shared].IsValid THEN "Get.MinPrecision"
                                                           ELSE "Set.IsValid"])

\* Get: p >= t.MinPrecision
GetMinPrecision(t) ==
    /\ thr[t].pc = "Get.MinPrecision"
    /\ Step(t, [thr[t] EXCEPT !.pc = IF thr[t].p >= trk[Shared].MinPrecision
                                      THEN "Get.MaxApproximation"
                                      ELSE "Set.IsValid"])

\* Get: the first argument of scale, t.MaxApproximation
GetMaxApproximation(t) ==
    /\ thr[t].pc = "Get.MaxApproximation"
    /\ Step(t, [thr[t] EXCEPT !.pc = "Get.scale",
                              !.isNil = trk[Shared].isNil,
                              !.ma = trk[Shared].MaxApproximation])

\* Get: the second argument, t.MinPrecision - p, and the call of scale; the
\* answer returns from Approximate.
GetScale(t) ==
    /\ thr[t].pc = "Get.scale"
    /\ Step(t, IF thr[t].isNil
               THEN [thr[t] EXCEPT !.pc = "done", !.st = "panic"]
               ELSE [thr[t] EXCEPT !.pc = "done", !.st = "int",
                        !.v = scale(thr[t].ma, Wrap(trk[Shared].MinPrecision - thr[t].p))])

\* After a miss c.approximate(p) runs on the thread's own data; Set:
\* t.IsValid = true
SetIsValid(t) ==
    /\ thr[t].pc = "Set.IsValid"
    /\ Write(t, [trk[Shared] EXCEPT !.IsValid = TRUE],
             [thr[t] EXCEPT !.pc = "Set.MaxApproximation",
                            !.v = constructiveIntegerApproximate(trk, Shared, thr[t].p).v])

\* Set: t.MaxApproximation = i
SetMaxApproximation(t) ==
    /\ thr[t].pc = "Set.MaxApproximation"
    /\ Write(t, [trk[Shared] EXCEPT !.isNil = FALSE, !.MaxApproximation = thr[t].v],
             [thr[t] EXCEPT !.pc = "Set.MinPrecision"])

\* Set: t.MinPrecision = p; return i
SetMinPrecision(t) ==
    /\ thr[t].pc = "Set.MinPrecision"
    /\ Write(t, [trk[Shared] EXCEPT !.MinPrecision = thr[t].p],
             [thr[t] EXCEPT !.pc = "done", !.st = "int"])

NextConcurrent ==
    \/ \E t \in Threads, p \in {MinValid, StartPrecision, 0} : Begin(t, p)
    \/ \E t \in Threads : GetIsValid(t)
    \/ \E t \in Threads : GetMinPrecision(t)
    \/ \E t \in Threads : GetMaxApproximation(t)
    \/ \E t \in Threads : GetScale(t)
    \/ \E t \in Threads : SetIsValid(t)
    \/ \E t \in Threads : SetMaxApproximation(t)
    \/ \E t \in Threads : SetMinPrecision(t)

SpecConcurrent == InitConcurrent /\ [][NextConcurrent]_vars

\* The tracker is empty or holds an approximation of the node at its precision.
TrackerWhole ==
    trk[Shared].IsValid =>
        /\ ~trk[Shared].isNil
        /\ WithinOne(trk[Shared].MaxApproximation, Val(nodes, Shared), trk[Shared].MinPrecision)

\* C22 (as stated): with two threads calling Approximate on the same node,
\* no reader finds the tracker partially written, no call fails, and every
\* call returns an approximation valid for the precision it asked for.
C22_ConcurrentCallsSucceed ==
    /\ \A t \in Threads :
          thr[t].pc \in {"Get.MinPrecision", "Get.MaxApproximation", "Get.scale"} =>
              TrackerWhole
    /\ \A t \in Threads :
          thr[t].pc = "done" =>
              /\ thr[t].st = "int"
              /\ WithinOne(thr[t].v, Val(nodes, Shared), thr[t].p)

\* C22: one thread is between the writes of Set, and the other has returned an
\* integer read from the half-written tracker that is no approximation of the
\* node at the precision it asked for.
C22_TornReadReturned ==
    \E t \in Threads : \E u \in Threads \ {t} :
        /\ thr[t].pc = "Set.MinPrecision"
        /\ thr[u].pc = "done"
        /\ thr[u].st = "int"
        /\ ~WithinOne(thr[u].v, Val(nodes, Shared), thr[u].p)

----------------------------------------------------------------------------
\* Ln, which looks at its argument when it is wrapped.

\* The precision of the look: -4 in the source; 0 with IntSize 6, so that
\* the inverse Ln goes on to look at asks its operand at valid precisions
\* (p - 1 and p - 4) as it does in the source.
LnProbePrecision == 0

\* A Real handed back by a constructor, named by its construction.
RReal(con, T) == [st |-> "real", v |-> 0, msg |-> con, t |-> T]

\* Inverse(c), which a table of TablesLn holds as its last node.
LnInverse(c) == CHOOSE d \in NodeIds : nodes[d].kind = "Inv" /\ nodes[d].a = c

\* Negate wraps whatever it is given, nil included.
LnNegate(inner) ==
    IF NoReturn(inner) THEN inner
    ELSE RReal(IF inner.st = "nil" THEN "Negate(nil)" ELSE "Negate(Ln(Inverse(c)))", inner.t)

\* The operands of TablesLn are not positive, so rough is never above 0 for
\* c itself, and the look at Inverse(c) either fails or is negative; the two
\* branches for rough >= 8 hand back their construction without following
\* Sqrt and SimpleLn.
RECURSIVE Ln(_, _)
Ln(T, c) ==
    LET rough == Approximate(T, c, LnProbePrecision) IN
    IF NoReturn(rough) THEN rough
    ELSE IF rough.st = "nil" THEN RPanic(NilDeref, rough.t)
    ELSE IF rough.v < 0 THEN RNil(rough.t)
    ELSE IF rough.v < 8 THEN LnNegate(Ln(rough.t, LnInverse(c)))
    ELSE IF rough.v > 24 THEN RReal("ShiftLeft(Ln(Sqrt(Sqrt(c))), 2)", rough.t)
    ELSE RReal("SimpleLn(c)", rough.t)

\* Integers that are not positive, built in three ways, each with its inverse.
TablesLn ==
    {<<newInteger(i), newMultiplicativeInverse(1)>> : i \in (-MaxInt) .. 0}
    \cup {<<newInteger(i), newNegation(1), newMultiplicativeInverse(2)>> : i \in 0 .. MaxInt}
    \cup {<<newInteger(i), newInteger(j), newAddition(1, 2), newMultiplicativeInverse(3)>> :
            i \in (-MaxInt) .. 0, j \in {0, 1}}

InitLn == InitOn(TablesLn)

\* The argument of Ln in a table of TablesLn.
LnArgument == nodes[Len(nodes)].a

DoLn == Call(Ln(trk, LnArgument))

NextLn ==
    \/ DoLn
    \/ \E c \in 1 .. LnArgument, p \in TestPrecisions : DoApproximate(c, p)
    \/ \E c \in 1 .. LnArgument, p \in TestPrecisions : DoPreciseSign(c, p)

SpecLn == InitLn /\ [][NextLn]_vars

\* C25 (as stated): Ln(c) returns nil, without failing, for every c that is
\* not positive, c = 0 included.
C25_LnOfNonPositiveIsNil ==
    ValSign(LnArgument) <= 0 => Ln(trk, LnArgument).st = "nil"

\* C25: Ln of a negative c returns nil, and it leaves the look in the trackers.
C25_LnOfNegativeIsNil ==
    ValSign(LnArgument) < 0 =>
        /\ Ln(trk, LnArgument).st = "nil"
        /\ Ln(trk, LnArgument).t[LnArgument].IsValid

\* C25: Ln(c) was called on a c that is zero: it looked at c, went on to
\* Inverse(c), and the division by the approximation 0 of c panics.
C25_LnOfZeroPanics ==
    /\ ValSign(LnArgument) = 0
    /\ trk[LnArgument].IsValid
    /\ trk[LnArgument].MinPrecision < LnProbePrecision
    /\ Ln(trk, LnArgument) = RPanic(DivByZero, trk)

----------------------------------------------------------------------------
\* Unified reals (pkg/unified) over rational numbers (pkg/rational).  A
\* *Number is a fraction in lowest terms with a positive denominator, as
\* big.Rat keeps it, or nil; a *Real is a pair of a node and a *Number.  The
\* constructors of pkg/constructive add nodes, so an operation gives back the
\* table of nodes it leaves together with its result.

RECURSIVE GCD(_, _)
GCD(a, b) == IF b = 0 THEN a ELSE GCD(b, a % b)

\* big.Rat.SetFrac
SetFrac(a, b) ==
    LET g == GCD(bigAbs(a), bigAbs(b))
        s == IF b < 0 THEN -1 ELSE 1
    IN  [num |-> (s * a) \div g, den |-> (s * b) \div g]

NilNumber == [num |-> 0, den |-> 0]
rationalZero == SetFrac(0, 1)
rationalOne == SetFrac(1, 1)

\* A variant of the sum of two fractions that adds numerator to numerator and
\* denominator to denominator.
rationalAddTermwise(r, other) == SetFrac(r.num + other.num, r.den + other.den)

rationalAdd(r, other) == SetFrac(r.num * other.den + other.num * r.den, r.den * other.den)
rationalMultiply(r, other) == SetFrac(r.num * other.num, r.den * other.den)
rationalInverse(r) == IF r.num = 0 THEN NilNumber ELSE SetFrac(r.den, r.num)
rationalIsZero(r) == r.num = 0

\* Divide(FromBigInt(Num), FromBigInt(Denom)): two integers, the inverse of
\* the second and the product.
rationalConstructive(N, r) ==
    [N |-> N \o <<newInteger(r.num), newInteger(r.den),
                  newMultiplicativeInverse(Len(N) + 2),
                  newMultiplication(Len(N) + 1, Len(N) + 3)>>,
     c |-> Len(N) + 4]

\* constructive.One() is one node for the whole process: the first node of
\* every table of TablesUnified.  A nil Real is written 0.
One == 1
NilReal == 0

unifiedNew(cr, rr) ==
    [cr |-> IF cr = NilReal THEN One ELSE cr,
     rr |-> IF rr = NilNumber THEN rationalOne ELSE rr]

unifiedIsZero(u) == rationalIsZero(u.rr)

unifiedConstructive(N, u) ==
    LET q == rationalConstructive(N, u.rr) IN
    [N |-> q.N \o <<newMultiplication(u.cr, q.c)>>, c |-> Len(q.N) + 1]

unifiedAdd(N, u, other) ==
    IF u.cr = other.cr THEN [N |-> N, u |-> unifiedNew(u.cr, rationalAdd(u.rr, other.rr))]
    ELSE IF unifiedIsZero(other) THEN [N |-> N, u |-> u]
    ELSE IF unifiedIsZero(u) THEN [N |-> N, u |-> other]
    ELSE LET a == unifiedConstructive(N, u)
             b == unifiedConstructive(a.N, other)
         IN  [N |-> b.N \o <<newAddition(a.c, b.c)>>,
              u |-> unifiedNew(Len(b.N) + 1, rationalOne)]

unifiedMultiply(N, u, other) ==
    IF u.cr = One THEN [N |-> N, u |-> unifiedNew(other.cr, rationalMultiply(u.rr, other.rr))]
    ELSE IF other.cr = One
    THEN [N |-> N, u |-> unifiedNew(u.cr, rationalMultiply(u.rr, other.rr))]
    ELSE IF unifiedIsZero(u) \/ unifiedIsZero(other)
    THEN [N |-> N, u |-> unifiedNew(One, rationalZero)]
    ELSE [N |-> N \o <<newMultiplication(u.cr, other.cr)>>,
          u |-> unifiedNew(Len(N) + 1, rationalMultiply(u.rr, other.rr))]

unifiedInverse(N, u) ==
    [N |-> N \o <<newMultiplicativeInverse(u.cr)>>,
     u |-> unifiedNew(Len(N) + 1, rationalInverse(u.rr))]

unifiedDivide(N, u, other) ==
    LET i == unifiedInverse(N, other) IN unifiedMultiply(i.N, u, i.u)

\* The constructive parts a caller starts from: One, an integer, and a
\* fraction with the value of an integer or not.
TablesUnified ==
    {<<newInteger(1), newInteger(i)>> : i \in {1, -MaxInt}}
    \cup {<<newInteger(1), newInteger(1), newShift(2, -1)>>}

\* The rational parts a caller starts from.
RationalVals == {SetFrac(n, d) : n \in {-1, 0, 1}, d \in {1, 2}}

\* A caller holds at most two numbers it made with New and one result.
MaxHeld == 3

InitUnified ==
    /\ nodes \in TablesUnified
    /\ trk = [c \in 1 .. Len(nodes) |-> NewTracker]
    /\ halted = FALSE
    /\ ctx = Background
    /\ thr = <<>>
    /\ reg = <<>>

\* The caller keeps the result w.u; the nodes w.N exist, with empty trackers.
Keep(w) ==
    /\ Len(reg) = MaxHeld - 1
    /\ reg' = Append(reg, w.u)
    /\ nodes' = w.N
    /\ trk' = [c \in 1 .. Len(w.N) |-> IF c <= Len(nodes) THEN trk[c] ELSE NewTracker]
    /\ UNCHANGED <<halted, ctx, thr>>

DoNew(cr, rr) ==
    /\ Len(reg) < MaxHeld - 1
    /\ reg' = Append(reg, unifiedNew(cr, rr))
    /\ UNCHANGED <<nodes, trk, halted, ctx, thr>>

DoUnifiedAdd(i, j) == Keep(unifiedAdd(nodes, reg[i], reg[j]))
DoUnifiedMultiply(i, j) == Keep(unifiedMultiply(nodes, reg[i], reg[j]))
DoUnifiedInverse(i) == Keep(unifiedInverse(nodes, reg[i]))
DoUnifiedDivide(i, j) == Keep(unifiedDivide(nodes, reg[i], reg[j]))

NextUnified ==
    \/ \E cr \in NodeIds \cup {NilReal}, rr \in RationalVals \cup {NilNumber} : DoNew(cr, rr)
    \/ \E i \in 1 .. Len(reg), j \in 1 .. Len(reg) : DoUnifiedAdd(i, j)
    \/ \E i \in 1 .. Len(reg), j \in 1 .. Len(reg) : DoUnifiedMultiply(i, j)
    \/ \E i \in 1 .. Len(reg) : DoUnifiedInverse(i)
    \/ \E i \in 1 .. Len(reg), j \in 1 .. Len(reg) : DoUnifiedDivide(i, j)

SpecUnified == InitUnified /\ [][NextUnified]_vars

\* The number a unified real denotes, cr * rr, as a fraction (den = 0: none).
Value(N, u) ==
    [num |-> Val(N, u.cr).num * u.rr.num, den |-> Val(N, u.cr).den * u.rr.den]

\* The numbers the caller holds.
Held == 1 .. Len(reg)

Sum(x, y) == [num |-> x.num * y.den + y.num * x.den, den |-> x.den * y.den]
Defined(x) == x.den # 0
Equal(x, y) == Defined(x) /\ Defined(y) /\ Same(x, y)

\* The nodes there were before the last operation added its own.
Before(k) == SubSeq(nodes, 1, k)

C30_InverseOfZeroIsNoNumber ==
    \A i \in Held :
        unifiedIsZero(reg[i]) =>
            /\ ~Defined(Value(unifiedInverse(nodes, reg[i]).N, unifiedInverse(nodes, reg[i]).u))
            /\ \A j \in Held :
                  ~Defined(Value(unifiedDivide(nodes, reg[j], reg[i]).N,
                                 unifiedDivide(nodes, reg[j], reg[i]).u))

\* C30: the caller holds x, a u whose value is zero, and x.Divide(u), and
\* the quotient denotes the number x does.
C30_QuotientByZeroIsDividend ==
    /\ Len(reg) = MaxHeld
    /\ ~unifiedIsZero(reg[1])
    /\ unifiedIsZero(reg[2])
    /\ \E k \in NodeIds :
          /\ nodes = unifiedDivide(Before(k), reg[1], reg[2]).N
          /\ reg[3] = unifiedDivide(Before(k), reg[1], reg[2]).u
    /\ Equal(Value(nodes, reg[3]), Value(nodes, reg[1]))

====
